---- MODULE Spec2Model ----
(***************************************************************************)
(* timetrax: the interval fold (Activity::fold_inner) and the closure      *)
(* construction (Activity::calculate_activity_closure) of                  *)
(* src/src/data/activity_closure.rs, with the class registry of            *)
(* src/src/data/job_config.rs and the intervals of                         *)
(* src/src/data/interval.rs.                                               *)
(*                                                                         *)
(* Times of day are minutes 0..EndOfDay (time::Time is ordered, and only   *)
(* its order and Time::MAX are read).  Option<T> is the empty set (None)   *)
(* or a singleton (Some).  A String is the sequence of its bytes, so that  *)
(* sort() and join("; ") are computed as the code computes them.           *)
(***************************************************************************)
EXTENDS Integers, Sequences, FiniteSets, TLC

\* ----- bounds of the model
\* longest activity list of a day
MaxActs == 3
\* times of day an input is drawn from: 0..MaxTime, and the end of the day
MaxTime == 2
\* longest activity list of a day whose closure is taken under a window
MaxWindowActs == 2
\* most activities pushed on a day
MaxStack == 3
\* latest time of day the clock is read at
MaxClock == 3
\* most classes, and most projects, of a registry
MaxRegistry == 4

\* ----- program constants
\* time::Time::MAX, in minutes
EndOfDay == 1439

\* ----- Option<T>
None == {}
Some(x) == {x}
is_some(o) == o # {}
is_none(o) == o = {}
unwrap(o) == CHOOSE x \in o : TRUE

\* ----- String: bytes, ordered as Rust orders str (bytewise, lexicographic)
RECURSIVE str_lt(_, _)
str_lt(a, b) ==
    IF Len(b) = 0 THEN FALSE
    ELSE IF Len(a) = 0 THEN TRUE
    ELSE IF Head(a) # Head(b) THEN Head(a) < Head(b)
    ELSE str_lt(Tail(a), Tail(b))

\* "; " (activity_closure.rs:97)
Separator == <<59, 32>>

\* itertools join: the items with the separator between them
RECURSIVE join(_, _)
join(items, sep) ==
    IF Len(items) = 0 THEN <<>>
    ELSE IF Len(items) = 1 THEN items[1]
    ELSE items[1] \o sep \o join(Tail(items), sep)

\* Vec<String>::contains
\* contains without line 56's test: every name counts as new
contains_never(v, x) == FALSE

contains(v, x) == \E i \in 1..Len(v) : v[i] = x

\* Vec<String>::sort: x put after the items that are not greater (stable)
RECURSIVE sort_insert(_, _)
sort_insert(v, x) ==
    IF Len(v) = 0 THEN <<x>>
    ELSE IF str_lt(x, Head(v)) THEN <<x>> \o v
    ELSE <<Head(v)>> \o sort_insert(Tail(v), x)

RECURSIVE sort(_)
sort(v) == IF Len(v) = 0 THEN <<>> ELSE sort_insert(sort(SubSeq(v, 1, Len(v) - 1)), v[Len(v)])

\* ----- Interval
is_complete(time) == is_some(time.end)

end_time_or_end_of_day(time) == IF is_some(time.end) THEN unwrap(time.end) ELSE EndOfDay

\* ----- Identifier, ActivityClass, JobConfig
Uuid(id) == [tag |-> "Uuid", val |-> id]
ByName(name) == [tag |-> "ByName", val |-> name]

identifier_matches(class, identifier) ==
    IF identifier.tag = "Uuid" THEN class.id = identifier.val
    ELSE class.inner.name = identifier.val

DUMMY_ACTIVITY_CLASS == [id |-> "nil", inner |-> [name |-> "<UNDEFINED>", priority |-> 0]]

\* Iterator::min_by keeps the first of several equally small classes
RECURSIVE min_by_priority(_, _)
min_by_priority(best, classes) ==
    IF Len(classes) = 0 THEN best
    ELSE min_by_priority(
            IF Head(classes).inner.priority < best.inner.priority THEN Head(classes) ELSE best,
            Tail(classes))

lowest_priority_class(config) ==
    IF Len(config.classes) = 0 THEN DUMMY_ACTIVITY_CLASS
    ELSE min_by_priority(Head(config.classes), Tail(config.classes))

\* Iterator::find: the first class the identifier matches, or None
resolve_class(config, identifier) ==
    LET hits == {i \in 1..Len(config.classes) : identifier_matches(config.classes[i], identifier)}
    IN IF hits = {} THEN None
       ELSE Some(config.classes[CHOOSE i \in hits : \A j \in hits : i <= j])

\* ----- Activity::fold_inner
\* the state of the loop before the first contributor (lines 25-29)
fold_start(config) ==
    [start_time |-> None,
     end_time |-> None,
     class |-> lowest_priority_class(config),
     names |-> <<>>,
     projects |-> <<>>]

\* lines 36-45: the running minimum of lines 36-42 is computed, and then the block
\* of lines 43-45, which follows the `if let` without an `else`, assigns the
\* contributor's end in every case
fold_end_time(end_time, activity) ==
    LET minimum ==
            IF is_some(end_time) /\ is_some(activity.time.end)
               /\ unwrap(activity.time.end) < unwrap(end_time)
            THEN activity.time.end
            ELSE end_time
        overwritten == activity.time.end
    IN overwritten

\* fold_activity_class that takes the registry's last class for a reference that
\* does not resolve
fold_activity_class_last(config, activity) ==
    LET resolved == resolve_class(config, activity.class)
    IN IF is_some(resolved) THEN unwrap(resolved)
       ELSE IF Len(config.classes) = 0 THEN DUMMY_ACTIVITY_CLASS
       ELSE config.classes[Len(config.classes)]

\* lines 47-50
fold_activity_class(config, activity) ==
    LET resolved == resolve_class(config, activity.class)
    IN IF is_some(resolved) THEN unwrap(resolved) ELSE lowest_priority_class(config)

\* fold_step with line 51's comparison turned: the lowest priority wins
fold_step_lowest_wins(config, acc, activity) ==
    LET activity_class == fold_activity_class(config, activity)
    IN [start_time |->
            IF is_none(acc.start_time) \/ activity.time.start > unwrap(acc.start_time)
            THEN Some(activity.time.start)
            ELSE acc.start_time,
        end_time |-> fold_end_time(acc.end_time, activity),
        class |->
            IF activity_class.inner.priority < acc.class.inner.priority
            THEN activity_class
            ELSE acc.class,
        names |->
            IF is_some(activity.name) /\ ~contains(acc.names, unwrap(activity.name))
            THEN Append(acc.names, unwrap(activity.name))
            ELSE acc.names,
        projects |-> acc.projects \o activity.projects]

\* one pass of the loop body (lines 32-63)
fold_step(config, acc, activity) ==
    LET activity_class == fold_activity_class(config, activity)
    IN [start_time |->
            IF is_none(acc.start_time) \/ activity.time.start > unwrap(acc.start_time)
            THEN Some(activity.time.start)
            ELSE acc.start_time,
        end_time |-> fold_end_time(acc.end_time, activity),
        class |->
            IF activity_class.inner.priority > acc.class.inner.priority
            THEN activity_class
            ELSE acc.class,
        names |->
            IF is_some(activity.name) /\ ~contains(acc.names, unwrap(activity.name))
            THEN Append(acc.names, unwrap(activity.name))
            ELSE acc.names,
        projects |-> acc.projects \o activity.projects]

RECURSIVE fold_loop(_, _, _)
fold_loop(config, acc, contributors) ==
    IF Len(contributors) = 0 THEN acc
    ELSE fold_loop(config, fold_step(config, acc, Head(contributors)), Tail(contributors))

\* fold_clamp_start without lines 67-71: the lower limit is never applied
fold_clamp_start_unclamped(start_time, start_time_limit) == start_time

\* fold_clamp_start with line 68's comparison left out: a supplied limit is the start
fold_clamp_start_to_limit(start_time, start_time_limit) ==
    IF is_some(start_time_limit) THEN unwrap(start_time_limit) ELSE start_time

\* lines 67-71
fold_clamp_start(start_time, start_time_limit) ==
    IF is_some(start_time_limit) /\ start_time < unwrap(start_time_limit)
    THEN unwrap(start_time_limit)
    ELSE start_time

\* fold_clamp_end without the else branch of lines 78-80: an undefined end stays
\* undefined under an upper limit
fold_clamp_end_unset(end_time, end_time_limit) ==
    IF is_some(end_time_limit) /\ is_some(end_time) /\ unwrap(end_time) > unwrap(end_time_limit)
    THEN end_time_limit
    ELSE end_time

\* lines 73-81
fold_clamp_end(end_time, end_time_limit) ==
    IF is_some(end_time_limit)
    THEN IF is_some(end_time)
         THEN IF unwrap(end_time) > unwrap(end_time_limit) THEN end_time_limit ELSE end_time
         ELSE end_time_limit
    ELSE end_time

\* the id of a synthesized activity (Uuid::new_v4(), line 93); the activities of a
\* day carry the ids 1, 2, ...
FreshId == 0

\* fold_result with line 84's comparison as >=: a fold of zero duration is None
fold_result_strict(acc, start_time, end_time) ==
    IF is_some(end_time) /\ start_time >= unwrap(end_time)
    THEN None
    ELSE Some([id |-> FreshId,
               name |-> IF Len(acc.names) = 0 THEN None
                        ELSE Some(join(sort(acc.names), Separator)),
               class |-> Uuid(acc.class.id),
               time |-> [start |-> start_time, end |-> end_time],
               projects |-> sort(acc.projects)])

\* lines 83-105: None when the end is before the start, else the new activity
fold_result(acc, start_time, end_time) ==
    IF is_some(end_time) /\ start_time > unwrap(end_time)
    THEN None
    ELSE Some([id |-> FreshId,
               name |-> IF Len(acc.names) = 0 THEN None
                        ELSE Some(join(sort(acc.names), Separator)),
               class |-> Uuid(acc.class.id),
               time |-> [start |-> start_time, end |-> end_time],
               projects |-> sort(acc.projects)])

\* lines 66-108, on what the loop has left: None when no contributor set a start
fold_clamped(acc, start_time_limit, end_time_limit) ==
    IF is_some(acc.start_time)
    THEN fold_result(acc,
                     fold_clamp_start(unwrap(acc.start_time), start_time_limit),
                     fold_clamp_end(acc.end_time, end_time_limit))
    ELSE None

fold_inner(config, contributors, start_time_limit, end_time_limit) ==
    fold_clamped(fold_loop(config, fold_start(config), contributors),
                 start_time_limit, end_time_limit)

\* ----- BinaryHeap<ActivitySortByEndTime>: std's array heap, data[1] the top

\* heap_le without the reversal of lines 130-134: the latest end on top
heap_le_natural(a, b) == end_time_or_end_of_day(a.time) <= end_time_or_end_of_day(b.time)

\* a <= b in the order of ActivitySortByEndTime::cmp (lines 128-136), which
\* compares the other's end with one's own
heap_le(a, b) == end_time_or_end_of_day(b.time) <= end_time_or_end_of_day(a.time)

\* BinaryHeap::sift_up, positions counted from 0 as in std
RECURSIVE sift_up(_, _, _, _)
sift_up(data, element, first, pos) ==
    IF pos > first
    THEN LET parent == (pos - 1) \div 2
         IN IF heap_le(element, data[parent + 1])
            THEN [data EXCEPT ![pos + 1] = element]
            ELSE sift_up([data EXCEPT ![pos + 1] = data[parent + 1]], element, first, parent)
    ELSE [data EXCEPT ![pos + 1] = element]

\* BinaryHeap::sift_down_to_bottom: the hole goes down along the greater children
RECURSIVE sift_down_to_bottom(_, _, _, _)
sift_down_to_bottom(data, element, first, pos) ==
    LET last == Len(data)
        child == 2 * pos + 1
    IN IF last >= 2 /\ child <= last - 2
       THEN LET next == child + (IF heap_le(data[child + 1], data[child + 2]) THEN 1 ELSE 0)
            IN sift_down_to_bottom([data EXCEPT ![pos + 1] = data[next + 1]], element, first, next)
       ELSE IF child = last - 1
            THEN sift_up([data EXCEPT ![pos + 1] = data[child + 1]], element, first, child)
            ELSE sift_up(data, element, first, pos)

\* BinaryHeap::push (line 268)
heap_push(data, item) == sift_up(Append(data, item), item, 0, Len(data))

\* BinaryHeap::pop (lines 246, 299): the heap that is left
heap_pop(data) ==
    IF Len(data) <= 1 THEN <<>>
    ELSE LET rest == SubSeq(data, 1, Len(data) - 1)
         IN sift_down_to_bottom(rest, data[Len(data)], 0, 0)

\* ----- Activity::calculate_activity_closure

\* fold_reported without lines 165-168: a fold of zero duration is returned
fold_reported_zero_kept(made, contributors) ==
    IF is_some(made)
    THEN [folded |-> made, error |-> FALSE]
    ELSE [folded |-> None, error |-> Len(contributors) > 0]

\* lines 161-189 on what fold_inner made of the `contributors`: `folded` is what
\* fold_report returns, a fold of zero duration being dropped (lines 165-168), and
\* `error` whether it logged "Unable to fold" (lines 172-187)
fold_reported(made, contributors) ==
    IF is_some(made)
    THEN [folded |-> IF unwrap(made).time.start = end_time_or_end_of_day(unwrap(made).time)
                     THEN None
                     ELSE made,
          error |-> FALSE]
    ELSE [folded |-> None, error |-> Len(contributors) > 0]

\* fold_report without line 160: the open-ended activities are not folded in
fold_report_stack_only(config, stack, open_ended, start_time, end_time) ==
    fold_reported(fold_inner(config, stack, start_time, end_time), stack \o open_ended)

\* fold_report (lines 148-190): the fold of the heap's items, in the heap's own
\* order, followed by the open-ended activities
fold_report(config, stack, open_ended, start_time, end_time) ==
    fold_reported(fold_inner(config, stack \o open_ended, start_time, end_time),
                  stack \o open_ended)

\* Vec::push of an Option's content, if any (closure.push(folded) under `if let`)
push_some(v, o) == IF is_some(o) THEN Append(v, unwrap(o)) ELSE v

\* sort_by_start without line 200: the list is swept in the order given
sort_by_start_unsorted(v) == v

\* slice::sort_by on the start (line 200): stable
RECURSIVE sort_by_start_insert(_, _)
sort_by_start_insert(v, x) ==
    IF Len(v) = 0 THEN <<x>>
    ELSE IF x.time.start < Head(v).time.start THEN <<x>> \o v
    ELSE <<Head(v)>> \o sort_by_start_insert(Tail(v), x)

RECURSIVE sort_by_start(_)
sort_by_start(v) ==
    IF Len(v) = 0 THEN <<>>
    ELSE sort_by_start_insert(sort_by_start(SubSeq(v, 1, Len(v) - 1)), v[Len(v)])

\* the top of the heap is dropped (lines 241-246, 294-299): what fold_report made
\* is pushed, last_activity_end moves to the top's end, the top is popped; s holds
\* the heap, the closure, last_activity_end and whether fold_report has logged
dropped(s, report) ==
    [activity_stack |-> heap_pop(s.activity_stack),
     closure |-> push_some(s.closure, report.folded),
     last_activity_end |-> Some(end_time_or_end_of_day(s.activity_stack[1].time)),
     logged |-> s.logged \/ report.error]

\* the while loop of lines 219-250 for the activity that comes next
RECURSIVE drop_ended(_, _, _, _)
drop_ended(config, s, open_ended, activity) ==
    IF Len(s.activity_stack) = 0 THEN s
    ELSE IF end_time_or_end_of_day(s.activity_stack[1].time) <= activity.time.start
         THEN drop_ended(
                 config,
                 dropped(s, fold_report(config, s.activity_stack, open_ended,
                                        s.last_activity_end,
                                        Some(end_time_or_end_of_day(s.activity_stack[1].time)))),
                 open_ended, activity)
         ELSE s

\* the while loop of lines 284-300
RECURSIVE drain(_, _, _)
drain(config, s, open_ended) ==
    IF Len(s.activity_stack) = 0 THEN s
    ELSE drain(config,
               dropped(s, fold_report(config, s.activity_stack, open_ended,
                                      s.last_activity_end, s.activity_stack[1].time.end)),
               open_ended)

\* one segment in the window pass (lines 322-344): None when it is skipped
clamp_activity(activity, window_start, window_end) ==
    LET skipped_start ==
            is_some(window_start) /\ end_time_or_end_of_day(activity.time) < unwrap(window_start)
        raised ==
            IF is_some(window_start) /\ activity.time.start < unwrap(window_start)
               /\ end_time_or_end_of_day(activity.time) > unwrap(window_start)
            THEN [activity EXCEPT !.time.start = unwrap(window_start)]
            ELSE activity
        skipped_end == is_some(window_end) /\ raised.time.start >= unwrap(window_end)
        lowered ==
            IF is_some(window_end) /\ end_time_or_end_of_day(raised.time) > unwrap(window_end)
               /\ raised.time.start < unwrap(window_end)
            THEN [raised EXCEPT !.time.end = window_end]
            ELSE raised
    IN IF skipped_start \/ skipped_end THEN None ELSE Some(lowered)

RECURSIVE clamp(_, _, _)
clamp(segments, window_start, window_end) ==
    IF Len(segments) = 0 THEN <<>>
    ELSE push_some(<<>>, clamp_activity(Head(segments), window_start, window_end))
         \o clamp(Tail(segments), window_start, window_end)

\* ----- the state

VARIABLES
    job_config,             \* the JobConfig the commands work with
    activities,             \* the day's activity list, as passed to the closure and the fold
    start,                  \* calculate_activity_closure's start: Option<Time>
    end,                    \* calculate_activity_closure's end: Option<Time>
    pc,                     \* where the call stands
    sorted_activities,      \* the sorted local list (line 198), what the for loop has left of it
    activity_stack,         \* the BinaryHeap
    open_ended_activities,
    last_activity_end,
    closure,
    logged,                 \* whether fold_report logged "Unable to fold" (line 173)
    result,                 \* Some(what calculate_activity_closure returned)
    folded,                 \* Some(what a direct call of fold_inner returned)
    now,                    \* the local time of day as the commands last read it
    executed                \* Some(the last class or project command and its Result)

vars == <<now, executed, job_config, activities, start, end, pc, sorted_activities, activity_stack,
          open_ended_activities, last_activity_end, closure, logged, result, folded>>

\* ----- inputs

\* the registry of tests::test_fold_activities (lines 359-377)
TestConfig ==
    [classes |-> <<[id |-> "u1", inner |-> [name |-> "work", priority |-> 1]],
                   [id |-> "u2", inner |-> [name |-> "break", priority |-> 2]]>>]

Times == (0..MaxTime) \cup {EndOfDay}

OptionalTimes == {None} \cup {Some(t) : t \in Times}

\* every interval, an end before the start included
Intervals == [start : Times, end : OptionalTimes]

\* "if end is present, end >= start is expected of input data"
well_formed(time) == is_some(time.end) => unwrap(time.end) >= time.start

WellFormedIntervals == {time \in Intervals : well_formed(time)}

\* the i-th activity of a day: its id is i, its name "a", "b", ... and its projects
\* are those of its position, the first unsorted and with a project of the second
position_projects(i) == IF i = 1 THEN <<<<113>>, <<112>>>> ELSE IF i = 2 THEN <<<<112>>>> ELSE <<>>

day_activity(i, shape) ==
    [id |-> i,
     name |-> Some(<<96 + i>>),
     class |-> shape.class,
     time |-> shape.time,
     projects |-> position_projects(i)]

\* no call has begun: the locals of calculate_activity_closure as lines 202-215 set
\* them, and nothing returned; no command has read the clock or run
NotCalled ==
    /\ pc = "idle"
    /\ now = 0
    /\ executed = None
    /\ sorted_activities = <<>>
    /\ activity_stack = <<>>
    /\ open_ended_activities = <<>>
    /\ last_activity_end = None
    /\ closure = <<>>
    /\ logged = FALSE
    /\ result = None
    /\ folded = None

\* the state before a call: a registry, a day of at most `longest` activities, the
\* i-th with an interval and a class reference of shapes[i], and the bounds of the
\* window
InitOf(configs, longest, shapes, windows) ==
    /\ job_config \in configs
    /\ \E n \in 0..longest : \E f \in [1..n -> UNION {shapes[i] : i \in 1..longest}] :
            /\ \A i \in 1..n : f[i] \in shapes[i]
            /\ activities = [i \in 1..n |-> day_activity(i, f[i])]
    /\ \E w \in windows : start = w[1] /\ end = w[2]
    /\ NotCalled

\* ----- the steps of calculate_activity_closure

\* Call without lines 192-196: an empty window is swept and clamped like any other
Call_unchecked ==
    /\ pc = "idle"
    /\ sorted_activities' = sort_by_start(activities)
    /\ pc' = "sweep"
    /\ UNCHANGED <<now, executed, job_config, activities, start, end, activity_stack, open_ended_activities,
                   last_activity_end, closure, logged, folded, result>>

\* lines 192-200: the empty window returns at once; otherwise the list is sorted
Call ==
    /\ pc = "idle"
    /\ IF is_some(start) /\ is_some(end) /\ unwrap(start) >= unwrap(end)
       THEN /\ result' = Some(<<>>)
            /\ pc' = "done"
            /\ UNCHANGED sorted_activities
       ELSE /\ sorted_activities' = sort_by_start(activities)
            /\ pc' = "sweep"
            /\ UNCHANGED result
    /\ UNCHANGED <<now, executed, job_config, activities, start, end, activity_stack, open_ended_activities,
                   last_activity_end, closure, logged, folded>>

\* one pass of the for loop (lines 216-273)
SweepActivity ==
    /\ pc = "sweep"
    /\ Len(sorted_activities) > 0
    /\ \E activity \in {Head(sorted_activities)} :
       \E s \in {drop_ended(job_config,
                            [activity_stack |-> activity_stack, closure |-> closure,
                             last_activity_end |-> last_activity_end, logged |-> logged],
                            open_ended_activities, activity)} :
       \E report \in {fold_report(job_config, s.activity_stack, open_ended_activities,
                                  s.last_activity_end, Some(activity.time.start))} :
          /\ closure' = push_some(s.closure, report.folded)
          /\ logged' = (s.logged \/ report.error)
          /\ last_activity_end' = s.last_activity_end
          /\ IF is_complete(activity.time)
             THEN /\ activity_stack' = heap_push(s.activity_stack, activity)
                  /\ UNCHANGED open_ended_activities
             ELSE /\ activity_stack' = s.activity_stack
                  /\ open_ended_activities' = Append(open_ended_activities, activity)
    /\ sorted_activities' = Tail(sorted_activities)
    /\ UNCHANGED <<now, executed, job_config, activities, start, end, pc, result, folded>>

\* lines 284-300, once the for loop has ended
Drain ==
    /\ pc = "sweep"
    /\ Len(sorted_activities) = 0
    /\ \E s \in {drain(job_config,
                        [activity_stack |-> activity_stack, closure |-> closure,
                         last_activity_end |-> last_activity_end, logged |-> logged],
                        open_ended_activities)} :
          /\ activity_stack' = s.activity_stack
          /\ closure' = s.closure
          /\ last_activity_end' = s.last_activity_end
          /\ logged' = s.logged
    /\ pc' = "drained"
    /\ UNCHANGED <<now, executed, job_config, activities, start, end, sorted_activities,
                   open_ended_activities, result, folded>>

\* FoldOpenEnded without lines 302-313: the open-ended activities are not folded
FoldOpenEnded_skipped ==
    /\ pc = "drained"
    /\ pc' = "built"
    /\ UNCHANGED <<now, executed, job_config, activities, start, end, sorted_activities, activity_stack,
                   open_ended_activities, last_activity_end, closure, logged, result, folded>>

\* lines 302-313
FoldOpenEnded ==
    /\ pc = "drained"
    /\ IF Len(open_ended_activities) > 0
       THEN \E report \in {fold_report(job_config, activity_stack, open_ended_activities,
                                       last_activity_end, None)} :
               /\ closure' = push_some(closure, report.folded)
               /\ logged' = (logged \/ report.error)
       ELSE UNCHANGED <<closure, logged>>
    /\ pc' = "built"
    /\ UNCHANGED <<now, executed, job_config, activities, start, end, sorted_activities, activity_stack,
                   open_ended_activities, last_activity_end, result, folded>>

\* closure_result that pads a closure without segments with one unnamed segment
\* over the window
closure_result_padded(built, window_start, window_end) ==
    IF is_none(window_start) /\ is_none(window_end)
    THEN built
    ELSE IF Len(built) = 0
         THEN <<[id |-> FreshId, name |-> None, class |-> Uuid("nil"),
                 time |-> [start |-> IF is_some(window_start) THEN unwrap(window_start) ELSE 0,
                           end |-> window_end],
                 projects |-> <<>>]>>
         ELSE clamp(built, window_start, window_end)

\* lines 315-346: what is returned of the closure as built
closure_result(built, window_start, window_end) ==
    IF is_none(window_start) /\ is_none(window_end)
    THEN built
    ELSE clamp(built, window_start, window_end)

\* Return that starts the call over after a logged fold failure
Return_restarts ==
    /\ pc = "built"
    /\ IF logged
       THEN /\ pc' = "idle"
            /\ open_ended_activities' = <<>>
            /\ closure' = <<>>
            /\ last_activity_end' = None
            /\ logged' = FALSE
            /\ UNCHANGED result
       ELSE /\ result' = Some(closure_result(closure, start, end))
            /\ pc' = "done"
            /\ UNCHANGED <<open_ended_activities, closure, logged, last_activity_end>>
    /\ UNCHANGED <<now, executed, job_config, activities, start, end, sorted_activities, activity_stack,
                   folded>>

\* lines 315-346
Return ==
    /\ pc = "built"
    /\ result' = Some(closure_result(closure, start, end))
    /\ pc' = "done"
    /\ UNCHANGED <<now, executed, job_config, activities, start, end, sorted_activities, activity_stack,
                   open_ended_activities, last_activity_end, closure, logged, folded>>

\* a call of fold_inner on the day's list as it stands, with the bounds as limits
\* (status.rs:103 folds the ongoing activities this way)
FoldInner ==
    /\ pc = "idle"
    /\ folded' = Some(fold_inner(job_config, activities, start, end))
    /\ pc' = "folded"
    /\ UNCHANGED <<now, executed, job_config, activities, start, end, sorted_activities, activity_stack,
                   open_ended_activities, last_activity_end, closure, logged, result>>

Next ==
    \/ Call
    \/ SweepActivity
    \/ Drain
    \/ FoldOpenEnded
    \/ Return
    \/ FoldInner

NoWindow == {<<None, None>>}

Windows == OptionalTimes \X OptionalTimes

\* the class references of the i-th activity of a day: the lower class by its name
\* or, for the second activity, the id "u3", which TestConfig does not hold ("Did
\* you removed it from the job config?"), and the higher class by its id
LowOrHigh(i) == {IF i = 2 THEN Uuid("u3") ELSE ByName("work"), Uuid("u2")}

AnyShape == [i \in 1..MaxActs |-> [time : Intervals, class : LowOrHigh(i)]]

WellFormedShape == [i \in 1..MaxActs |-> [time : WellFormedIntervals, class : LowOrHigh(i)]]

WorkShape == [i \in 1..MaxActs |-> [time : Intervals, class : {ByName("work")}]]

\* every day of at most MaxActs activities, of any interval, of the lower or the
\* higher class, and no window
Init == InitOf({TestConfig}, MaxActs, AnyShape, NoWindow)

Spec == Init /\ [][Next]_vars

\* every day of at most MaxWindowActs activities of class work, under every window
InitWindow == InitOf({TestConfig}, MaxWindowActs, WorkShape, Windows)

SpecWindow == InitWindow /\ [][Next]_vars

\* the day of tests::test_fold_activities (lines 379-442), times in minutes and the
\* names cut to "W", "L", "P", "P2", "P3", which sort as the full names do
ScenarioDay ==
    <<[id |-> 1, name |-> Some(<<87>>), class |-> ByName("work"),
       time |-> [start |-> 540, end |-> Some(1080)], projects |-> <<>>],
      [id |-> 2, name |-> Some(<<76>>), class |-> ByName("break"),
       time |-> [start |-> 720, end |-> Some(780)], projects |-> <<>>],
      [id |-> 3, name |-> Some(<<80>>), class |-> ByName("work"),
       time |-> [start |-> 600, end |-> Some(660)], projects |-> <<>>],
      [id |-> 4, name |-> Some(<<80, 50>>), class |-> ByName("work"),
       time |-> [start |-> 630, end |-> Some(690)], projects |-> <<>>],
      [id |-> 5, name |-> Some(<<80, 51>>), class |-> ByName("work"),
       time |-> [start |-> 780, end |-> Some(840)], projects |-> <<>>]>>

\* the day of the test in every list order, no window
InitScenario ==
    /\ job_config = TestConfig
    /\ \E p \in Permutations(1..Len(ScenarioDay)) :
            activities = [i \in 1..Len(ScenarioDay) |-> ScenarioDay[p[i]]]
    /\ start = None
    /\ end = None
    /\ NotCalled

SpecScenario == InitScenario /\ [][Next]_vars

\* a registry in which two classes share the lowest priority, "u3" the second
TieConfig ==
    [classes |-> <<[id |-> "u1", inner |-> [name |-> "work", priority |-> 1]],
                   [id |-> "u3", inner |-> [name |-> "rest", priority |-> 1]],
                   [id |-> "u2", inner |-> [name |-> "break", priority |-> 2]]>>]

\* no instant lies in the intervals of two activities of the day
Disjoint ==
    \A i \in 1..Len(activities), j \in 1..Len(activities) :
        i # j => ~\E t \in Times : /\ activities[i].time.start <= t
                                    /\ t < end_time_or_end_of_day(activities[i].time)
                                    /\ activities[j].time.start <= t
                                    /\ t < end_time_or_end_of_day(activities[j].time)

\* every day of at most MaxActs activities, each defined end >= its start, no two
\* of which overlap in time, and no window
InitDisjoint ==
    /\ InitOf({TestConfig, TieConfig}, MaxActs, WellFormedShape, NoWindow)
    /\ Disjoint

SpecDisjoint == InitDisjoint /\ [][Next]_vars

\* every list of at most MaxActs contributors of class work, under every pair of
\* limits, for a call of fold_inner
InitFold == InitOf({TestConfig}, MaxActs, WorkShape, Windows)

SpecFold == InitFold /\ [][FoldInner]_vars

\* ----- what the claims speak of

Instants == Times

\* the instant t lies in [start, effective end) of the activity
covers(activity, t) == activity.time.start <= t /\ t < end_time_or_end_of_day(activity.time)

Range(v) == {v[i] : i \in 1..Len(v)}

\* each defined end is >= its start
WellFormed == \A i \in 1..Len(activities) : well_formed(activities[i].time)

NonOverlap(segments) ==
    \A i \in 1..(Len(segments) - 1) :
        end_time_or_end_of_day(segments[i].time) <= segments[i + 1].time.start

\* what a call with the window [a, b) returns of the closure as built (lines 192-196
\* return the empty list for an empty window)
Returned(built, a, b) ==
    IF is_some(a) /\ is_some(b) /\ unwrap(a) >= unwrap(b) THEN <<>> ELSE closure_result(built, a, b)

\* C1 (Non-overlap): for a list in which each defined end is >= its start, adjacent
\* segments of what calculate_activity_closure returns satisfy
\* s[i].end <= s[i+1].start, an undefined end counting as the end of the day: of
\* the result of the call, and of what the closure as built gives under every window
C1_NonOverlap ==
    WellFormed =>
        /\ pc = "done" => NonOverlap(unwrap(result))
        /\ pc = "built" =>
              \A a \in OptionalTimes, b \in OptionalTimes : NonOverlap(Returned(closure, a, b))

\* a closure of three segments, the middle one of two overlapping activities
C1_Witness ==
    /\ WellFormed
    /\ pc = "done"
    /\ Len(unwrap(result)) = 3
    /\ \E i, j \in 1..Len(activities) :
          /\ activities[i].time.start < activities[j].time.start
          /\ activities[j].time.start < end_time_or_end_of_day(activities[i].time)
          /\ end_time_or_end_of_day(activities[i].time) < end_time_or_end_of_day(activities[j].time)

\* C2 (Coverage): for a list in which each defined end is >= its start and no
\* window, every instant of [start, effective end) of an input activity lies in
\* [start, effective end) of exactly one segment of the closure
C2_Coverage ==
    (WellFormed /\ pc = "done") =>
        \A t \in Instants :
            (\E i \in 1..Len(activities) : covers(activities[i], t)) =>
                Cardinality({k \in 1..Len(unwrap(result)) : covers(unwrap(result)[k], t)}) = 1

\* two activities that overlap in part and a gap before a third
C2_Witness ==
    /\ WellFormed
    /\ pc = "done"
    /\ Len(activities) = 3
    /\ \E t \in Instants :
          Cardinality({i \in 1..Len(activities) : covers(activities[i], t)}) = 2
    /\ \E t \in Instants, u \in Instants, v \in Instants :
          /\ t < u /\ u < v
          /\ \E i \in 1..Len(activities) : covers(activities[i], t)
          /\ ~\E i \in 1..Len(activities) : covers(activities[i], u)
          /\ \E i \in 1..Len(activities) : covers(activities[i], v)

\* a segment as the test prints and compares it
Segment(from, to, name, class) ==
    [id |-> FreshId, name |-> Some(name), class |-> Uuid(class),
     time |-> [start |-> from, end |-> Some(to)], projects |-> <<>>]

\* C6 (End-to-end scenario): work 09:00-18:00 and lunch 12:00-13:00 (the higher
\* class), meetings 10:00-11:00, 10:30-11:30 and 13:00-14:00, in any list order,
\* give exactly the eight segments of the test, each with the sorted names of the
\* activities running in it, the higher class on 12:00-13:00 only
C6_Scenario ==
    pc = "done" =>
        unwrap(result) =
            <<Segment(540, 600, <<87>>, "u1"),
              Segment(600, 630, <<80, 59, 32, 87>>, "u1"),
              Segment(630, 660, <<80, 59, 32, 80, 50, 59, 32, 87>>, "u1"),
              Segment(660, 690, <<80, 50, 59, 32, 87>>, "u1"),
              Segment(690, 720, <<87>>, "u1"),
              Segment(720, 780, <<76, 59, 32, 87>>, "u2"),
              Segment(780, 840, <<80, 51, 59, 32, 87>>, "u1"),
              Segment(840, 1080, <<87>>, "u1")>>

\* the call has returned for a list order other than the test's
C6_Witness ==
    /\ pc = "done"
    /\ Len(unwrap(result)) = 8
    /\ activities[1].time.start = 780
    /\ activities[5].time.start = 540

\* the activity is active at some instant of the segment
active_during(activity, segment) ==
    \E t \in Instants : covers(activity, t) /\ covers(segment, t)

\* the priority of the class an activity's reference resolves to, the lowest class
\* standing in for a reference the registry does not hold
priority_of(activity) == fold_activity_class(job_config, activity).inner.priority

PriorityCorrect(segments) ==
    \A k \in 1..Len(segments) : \A i \in 1..Len(activities) :
        active_during(activities[i], segments[k]) =>
            priority_of(segments[k]) >= priority_of(activities[i])

\* C3 (Priority correctness) as claimed, for every activity list: the priority of a
\* segment's class is >= that of the resolved class of every input activity active
\* during the segment
C3_AnyList == pc = "done" => PriorityCorrect(unwrap(result))

\* C3 (Priority correctness), amended: for every activity list in which each defined
\* end is >= its start, under every window, the priority of a segment's class is >=
\* that of the resolved class of every input activity active during the segment
C3_PriorityCorrect ==
    WellFormed =>
        /\ pc = "done" => PriorityCorrect(unwrap(result))
        /\ pc = "built" =>
              \A a \in OptionalTimes, b \in OptionalTimes :
                  PriorityCorrect(Returned(closure, a, b))

\* a segment of the lower class and a segment in which an activity of the higher
\* class runs beside one of the lower class, and beside one whose class is unknown
C3_Witness ==
    /\ WellFormed
    /\ pc = "done"
    /\ \E k \in 1..Len(unwrap(result)) : priority_of(unwrap(result)[k]) = 1
    /\ \E k \in 1..Len(unwrap(result)) : \E i, j \in 1..Len(activities) :
          /\ active_during(activities[i], unwrap(result)[k])
          /\ active_during(activities[j], unwrap(result)[k])
          /\ priority_of(activities[i]) = 2
          /\ activities[j].class = Uuid("u3")
          /\ priority_of(unwrap(result)[k]) = 2

\* the strings of a set in ascending order
RECURSIVE sorted_strings(_)
sorted_strings(S) ==
    IF S = {} THEN <<>>
    ELSE LET least == CHOOSE x \in S : \A y \in S : ~str_lt(y, x)
         IN <<least>> \o sorted_strings(S \ {least})

\* the interval of the activity contains the whole segment
contains_segment(activity, segment) ==
    /\ activity.time.start <= segment.time.start
    /\ end_time_or_end_of_day(segment.time) <= end_time_or_end_of_day(activity.time)

\* the name of a segment that merges exactly the names of the set
merged_name(names) == IF names = {} THEN None ELSE Some(join(sorted_strings(names), Separator))

\* C7 (Contributor exactness): in the unclamped closure of a list in which each
\* defined end is >= its start, the names merged into a segment are those of
\* exactly the input activities whose interval contains the whole segment
C7_ContributorExact ==
    (WellFormed /\ pc = "done") =>
        \A k \in 1..Len(unwrap(result)) :
            unwrap(result)[k].name =
                merged_name({unwrap(activities[i].name) :
                                i \in {j \in 1..Len(activities) :
                                          contains_segment(activities[j], unwrap(result)[k])}})

\* three activities, and segments that merge one, two and three names
C7_Witness ==
    /\ WellFormed
    /\ pc = "done"
    /\ Len(activities) = 3
    /\ \A n \in 1..3 : \E k \in 1..Len(unwrap(result)) :
          Cardinality({i \in 1..Len(activities) :
                          contains_segment(activities[i], unwrap(result)[k])}) = n

\* C8 (Sparse over inactive time): for a list in which each defined end is >= its
\* start and no window, no segment of the closure contains an instant at which no
\* input activity is active
C8_Sparse ==
    (WellFormed /\ pc = "done") =>
        \A k \in 1..Len(unwrap(result)) : \A t \in Instants :
            covers(unwrap(result)[k], t) => \E i \in 1..Len(activities) : covers(activities[i], t)

\* three activities and two segments, with inactive time between the two
C8_Witness ==
    /\ WellFormed
    /\ pc = "done"
    /\ Len(activities) = 3
    /\ Len(unwrap(result)) = 2
    /\ end_time_or_end_of_day(unwrap(result)[1].time) < unwrap(result)[2].time.start

\* C4 (Window clamp containment) as claimed: under a window [a, b) every returned
\* segment has start >= a and end <= b
C4_Containment ==
    (pc = "done" /\ is_some(start) /\ is_some(end)) =>
        \A k \in 1..Len(unwrap(result)) :
            /\ unwrap(result)[k].time.start >= unwrap(start)
            /\ end_time_or_end_of_day(unwrap(result)[k].time) <= unwrap(end)

\* the activity has an instant: its start is before its effective end
nonempty(activity) == activity.time.start < end_time_or_end_of_day(activity.time)

\* the class a lone contributor leaves in the fold: its resolved class, or the
\* registry's first class of the lowest priority when the reference is not resolved
\* or resolves to a class that is not above that priority
lone_class(activity) ==
    IF priority_of(activity) > lowest_priority_class(job_config).inner.priority
    THEN fold_activity_class(job_config, activity)
    ELSE lowest_priority_class(job_config)

same_projects(v, w) ==
    /\ Len(v) = Len(w)
    /\ \A x \in Range(v) \cup Range(w) :
          Cardinality({i \in 1..Len(v) : v[i] = x}) = Cardinality({i \in 1..Len(w) : w[i] = x})

kth_by_start(k) ==
    CHOOSE a \in Range(activities) :
        Cardinality({i \in 1..Len(activities) : activities[i].time.start < a.time.start}) = k - 1

min_defined_end(contributors) ==
    LET ends == {unwrap(contributors[i].time.end) :
                    i \in {j \in 1..Len(contributors) : is_some(contributors[j].time.end)}}
    IN IF ends = {} THEN None ELSE Some(CHOOSE e \in ends : \A f \in ends : e <= f)

\* the largest start among the contributors of a list that is not empty
max_start(contributors) ==
    CHOOSE t \in {contributors[i].time.start : i \in 1..Len(contributors)} :
        \A i \in 1..Len(contributors) : contributors[i].time.start <= t

\* C9 (Fold end time) as claimed: with contributors and no upper bound, the end of
\* the segment fold_inner returns is the smallest defined end among the
\* contributors, in whatever order they are given
C9_FoldEndIsMinimum ==
    (pc = "folded" /\ Len(activities) > 0 /\ is_none(end) /\ is_some(unwrap(folded))) =>
        unwrap(unwrap(folded)).time.end = min_defined_end(activities)

clamped_start ==
    IF is_some(start) /\ unwrap(start) > max_start(activities)
    THEN unwrap(start)
    ELSE max_start(activities)

\* the end the fold is left with: what the loop over the contributors left,
\* lowered to the upper limit, the limit itself if the loop left none
clamped_end ==
    LET merged_end == fold_loop(job_config, fold_start(job_config), activities).end_time
    IN IF is_none(end) THEN merged_end
       ELSE IF is_some(merged_end) /\ unwrap(merged_end) < unwrap(end) THEN merged_end ELSE end

EmptyConfig == [classes |-> <<>>]

ClassShape ==
    [i \in 1..MaxActs |->
        [time : WellFormedIntervals, class : {ByName("work"), Uuid("u3"), Uuid("u2")}]]

\* every list of at most MaxActs contributors, each of class work, of the class
\* "u3" (which the test registry does not hold) or of class break, under the test
\* registry, the registry with a tie and the empty registry, without limits
InitFoldClass == InitOf({TestConfig, TieConfig, EmptyConfig}, MaxActs, ClassShape, NoWindow)

SpecFoldClass == InitFoldClass /\ [][FoldInner]_vars

\* the classes the contributors resolve to, the lowest class of the registry for
\* a reference it does not hold
resolved_classes == {fold_activity_class(job_config, activities[i]) : i \in 1..Len(activities)}

\* C12 (Fold classification): the class of a segment fold_inner returns is one of
\* the contributors' resolved classes, and none of them has a higher priority
C12_FoldClass ==
    (pc = "folded" /\ is_some(unwrap(folded))) =>
        \E class \in resolved_classes :
            /\ unwrap(unwrap(folded)).class = Uuid(class.id)
            /\ \A other \in resolved_classes : other.inner.priority <= class.inner.priority

\* ----- fold_inner over names and projects

\* no name, "a", "b" and "ab"
OptionalNames == {None, Some(<<97>>), Some(<<98>>), Some(<<97, 98>>)}

\* no project, "p", "q" before "p", and "p" twice
ProjectLists == {<<>>, <<<<112>>>>, <<<<113>>, <<112>>>>, <<<<112>>, <<112>>>>}

MergeShapes ==
    [time : {[start |-> 0, end |-> None], [start |-> 1, end |-> Some(2)]},
     name : OptionalNames,
     projects : ProjectLists]

merge_activity(i, shape) ==
    [id |-> i, name |-> shape.name, class |-> ByName("work"), time |-> shape.time,
     projects |-> shape.projects]

\* every list of at most MaxActs contributors of class work, each with or without
\* a name and with a list of projects, names and projects shared or not, for a
\* call of fold_inner without limits
InitFoldMerge ==
    /\ job_config = TestConfig
    /\ \E n \in 0..MaxActs : \E f \in [1..n -> MergeShapes] :
            activities = [i \in 1..n |-> merge_activity(i, f[i])]
    /\ start = None
    /\ end = None
    /\ NotCalled

SpecFoldMerge == InitFoldMerge /\ [][FoldInner]_vars

\* the names the contributors carry
contributor_names ==
    {unwrap(activities[i].name) : i \in {j \in 1..Len(activities) : is_some(activities[j].name)}}

\* C13 (Fold names): the name of a segment fold_inner returns is the contributors'
\* names, each once, in ascending order, joined with "; "; it is None exactly when
\* no contributor has a name
C13_FoldNames ==
    (pc = "folded" /\ is_some(unwrap(folded))) =>
        /\ unwrap(unwrap(folded)).name = merged_name(contributor_names)
        /\ is_none(unwrap(unwrap(folded)).name) <=>
              \A i \in 1..Len(activities) : is_none(activities[i].name)

\* three contributors named "b", "a" and "b" again: the name is "a; b"
C13_Witness ==
    /\ pc = "folded"
    /\ is_some(unwrap(folded))
    /\ Len(activities) = 3
    /\ activities[1].name = Some(<<98>>)
    /\ activities[2].name = Some(<<97>>)
    /\ activities[3].name = Some(<<98>>)
    /\ unwrap(unwrap(folded)).name = Some(<<97, 59, 32, 98>>)

\* the project references of the contributors
contributor_projects == UNION {Range(activities[i].projects) : i \in 1..Len(activities)}

\* C14 (Fold projects) as claimed: the projects of a segment fold_inner returns are
\* the contributors' project references in ascending order, each exactly once
C14_FoldProjects ==
    (pc = "folded" /\ is_some(unwrap(folded))) =>
        unwrap(unwrap(folded)).projects = sorted_strings(contributor_projects)

\* ----- calculate_activity_closure as a function of its arguments

\* lines 252-272 after the while loop: what fold_report made is pushed and the
\* activity joins the heap or the open-ended list; d is the state the while loop
\* left
inserted(d, report, open_ended, activity) ==
    [activity_stack |-> IF is_complete(activity.time)
                        THEN heap_push(d.activity_stack, activity)
                        ELSE d.activity_stack,
     closure |-> push_some(d.closure, report.folded),
     last_activity_end |-> d.last_activity_end,
     logged |-> d.logged \/ report.error,
     open_ended_activities |-> IF is_complete(activity.time)
                               THEN open_ended
                               ELSE Append(open_ended, activity)]

\* lines 252-272 on the state the while loop left
folded_before(config, d, open_ended, activity) ==
    inserted(d,
             fold_report(config, d.activity_stack, open_ended, d.last_activity_end,
                         Some(activity.time.start)),
             open_ended, activity)

\* one pass of the for loop (lines 216-273)
sweep_activity(config, s, activity) ==
    folded_before(config, drop_ended(config, s, s.open_ended_activities, activity),
                  s.open_ended_activities, activity)

\* the for loop (lines 216-273) over the sorted list
RECURSIVE sweep(_, _, _)
sweep(config, s, sorted) ==
    IF Len(sorted) = 0 THEN s
    ELSE sweep(config, sweep_activity(config, s, Head(sorted)), Tail(sorted))

\* lines 302-313 on the state the drain left
open_ended_folded(config, d, open_ended) ==
    IF Len(open_ended) > 0
    THEN push_some(d.closure,
                   fold_report(config, d.activity_stack, open_ended, d.last_activity_end,
                               None).folded)
    ELSE d.closure

\* lines 284-313 on the state the for loop left
drained_and_folded(config, s) ==
    open_ended_folded(config, drain(config, s, s.open_ended_activities),
                      s.open_ended_activities)

\* lines 198-313: the closure as built
built_closure(config, list) ==
    drained_and_folded(
        config,
        sweep(config,
              [activity_stack |-> <<>>, closure |-> <<>>, last_activity_end |-> None,
               logged |-> FALSE, open_ended_activities |-> <<>>],
              sort_by_start(list)))

\* Activity::calculate_activity_closure (lines 113-347)
calculate_activity_closure(config, list, window_start, window_end) ==
    IF is_some(window_start) /\ is_some(window_end) /\ unwrap(window_start) >= unwrap(window_end)
    THEN <<>>
    ELSE closure_result(built_closure(config, list), window_start, window_end)

\* a registry in which two classes share the highest priority
TieHighConfig ==
    [classes |-> <<[id |-> "u1", inner |-> [name |-> "work", priority |-> 1]],
                   [id |-> "u2", inner |-> [name |-> "break", priority |-> 2]],
                   [id |-> "u4", inner |-> [name |-> "lunch", priority |-> 2]]>>]

BreakOrLunchShape ==
    [i \in 1..MaxActs |-> [time : WellFormedIntervals, class : {Uuid("u2"), Uuid("u4")}]]

\* every day of at most MaxWindowActs activities of the classes break and lunch,
\* each defined end >= its start, under the test registry and under the registry
\* in which the two share a priority, under every window
InitOrders ==
    InitOf({TestConfig, TieHighConfig}, MaxWindowActs, BreakOrLunchShape, Windows)

SpecOrders == InitOrders /\ [][Next]_vars

\* the list in the order p
reordered(list, p) == [i \in 1..Len(list) |-> list[p[i]]]

\* the closures of all orders of the day's list are the one returned
SameInEveryOrder ==
    \A p \in Permutations(1..Len(activities)) :
        calculate_activity_closure(job_config, reordered(activities, p), start, end)
            = unwrap(result)

\* C15 (Determinism) as claimed: for a list in which each defined end is >= its
\* start, every order of the list gives the same closure, segment by segment, for
\* every registry and window
C15_Determinism == (pc = "done" /\ WellFormed) => SameInEveryOrder

\* C16 (Empty window): with both bounds given and window_start >= window_end the
\* call returns the empty sequence, whatever the activity list
C16_EmptyWindow ==
    (pc = "done" /\ is_some(start) /\ is_some(end) /\ unwrap(start) >= unwrap(end)) =>
        unwrap(result) = <<>>

\* the call has returned for a window whose start is its end, inside the interval
\* of an activity of the day
C16_Witness ==
    /\ pc = "done"
    /\ Len(activities) = 2
    /\ start = Some(1)
    /\ end = Some(1)
    /\ activities[1].time = [start |-> 0, end |-> Some(2)]
    /\ unwrap(result) = <<>>

\* C17 (Empty list): the empty activity list gives the empty closure, under every
\* window
C17_EmptyList == (pc = "done" /\ Len(activities) = 0) => unwrap(result) = <<>>

\* the call has returned for the empty list under a window that is not empty
C17_Witness ==
    /\ pc = "done"
    /\ Len(activities) = 0
    /\ start = Some(0)
    /\ end = Some(2)
    /\ unwrap(result) = <<>>

\* the closure is the one segment from the start of the day's only activity on,
\* without an end
OneTrailingSegment ==
    /\ Len(unwrap(result)) = 1
    /\ unwrap(result)[1].time = [start |-> activities[1].time.start, end |-> None]

\* C18 (Single open-ended activity) as claimed: a day of one activity [s, None]
\* and no window gives exactly one segment, from s and without an end
C18_AnyStart ==
    (pc = "done" /\ Len(activities) = 1 /\ is_none(activities[1].time.end)) =>
        OneTrailingSegment

\* C18 (Single open-ended activity), amended: a day of one activity [s, None] with
\* s before the end of the day, and no window, gives exactly one segment, from s
\* and without an end
C18_SingleOpenEnded ==
    (pc = "done" /\ Len(activities) = 1 /\ is_none(activities[1].time.end)
     /\ activities[1].time.start < EndOfDay) =>
        OneTrailingSegment

\* the call has returned for the day of one activity [1, None]
C18_Witness ==
    /\ pc = "done"
    /\ Len(activities) = 1
    /\ activities[1].time = [start |-> 1, end |-> None]
    /\ Len(unwrap(result)) = 1

\* ----- the call runs to its end

\* every day of at most MaxWindowActs activities, of any interval (an end before
\* the start included), of a class that resolves or not, under the test registry
\* and the empty registry, under every window
InitAnyInput == InitOf({TestConfig, EmptyConfig}, MaxWindowActs, AnyShape, Windows)

\* a step of the call can be taken: the call or the fold has not returned
Running == pc \in {"idle", "sweep", "drained", "built"}

\* the call is one sequential run, a step that can be taken is taken: the weak
\* fairness WF_vars(Next), with ENABLED <<Next>>_vars written out as Running
RunsOn == []<>(~Running) \/ []<><<Next>>_vars

SpecRun == InitAnyInput /\ [][Next]_vars /\ RunsOn

\* C19 (Nothing is fatal): for every activity list, with ends before starts,
\* unresolved classes or an empty registry, the call comes to its end, and what it
\* returns is a sequence of segments
C19_NothingFatal ==
    /\ <>(pc \in {"done", "folded"})
    /\ [](pc = "done" =>
            /\ is_some(result)
            /\ unwrap(result) \in Seq(Range(unwrap(result))))

\* under the empty registry, the call has returned a segment after fold_report
\* logged a fold that failed on an activity ending before its start
C19_Witness ==
    /\ pc = "done"
    /\ job_config = EmptyConfig
    /\ logged
    /\ ~WellFormed
    /\ Len(unwrap(result)) > 0


\* ----- the commands push and pop

\* a registry with the classes of the test registry and the project "p"
StackConfig ==
    [classes |-> TestConfig.classes,
     projects |-> <<[id |-> "p1", inner |-> [name |-> <<112>>]]>>]

\* JobConfig::resolve_project for a reference by name
resolve_project(config, identifier) ==
    LET hits == {i \in 1..Len(config.projects) : config.projects[i].inner.name = identifier}
    IN IF hits = {} THEN None
       ELSE Some(config.projects[CHOOSE i \in hits : \A j \in hits : i <= j])

\* Interval::start_now, the clock reading t
start_now(t) == [start |-> t, end |-> None]

\* Interval::complete_now, the clock reading t
complete_now(time, t) == IF is_none(time.end) THEN [time EXCEPT !.end = Some(t)] ELSE time

\* the classification given to push: by name, by id, and one the registry lacks
PushClasses == {ByName("work"), Uuid("u2"), Uuid("nil")}

\* the projects given to push: none, "p", and "x", which the registry lacks
PushProjects == {<<>>, <<<<112>>>>, <<<<120>>>>}

\* the day is empty and no command has run
InitStack ==
    /\ job_config = StackConfig
    /\ activities = <<>>
    /\ start = None
    /\ end = None
    /\ NotCalled

\* CommandPush::execute (push.rs 32-88); the clock is read at t, not before the
\* last reading
Push ==
    /\ pc = "idle"
    /\ Len(activities) < MaxStack
    /\ \E classification \in PushClasses, project \in PushProjects, t \in now..MaxClock :
          IF \/ is_none(resolve_class(job_config, classification))
             \/ \E i \in 1..Len(project) : is_none(resolve_project(job_config, project[i]))
          THEN UNCHANGED <<activities, now>>
          ELSE /\ activities' = Append(activities,
                                       [id |-> Len(activities) + 1,
                                        name |-> None,
                                        class |-> classification,
                                        time |-> start_now(t),
                                        projects |-> project])
               /\ now' = t
    /\ UNCHANGED <<executed, job_config, start, end, pc, sorted_activities, activity_stack,
                   open_ended_activities, last_activity_end, closure, logged, result, folded>>

\* the first activity of the list that is not complete
last_open_first(v) ==
    LET open == {i \in 1..Len(v) : ~is_complete(v[i].time)}
    IN IF open = {} THEN None ELSE Some(CHOOSE i \in open : \A j \in open : i <= j)

\* pop.rs 36-40: the position of the last activity of the list that is not complete
last_open(v) ==
    LET open == {i \in 1..Len(v) : ~is_complete(v[i].time)}
    IN IF open = {} THEN None ELSE Some(CHOOSE i \in open : \A j \in open : j <= i)

\* CommandPop::execute (pop.rs 15-54); the clock is read at t, not before the last
\* reading, when an activity is completed
Pop ==
    /\ pc = "idle"
    /\ IF Len(activities) > 0
       THEN \E sorted \in {sort_by_start(activities)} :
            \E found \in {last_open(sorted)} :
               IF is_some(found)
               THEN \E t \in now..MaxClock :
                       /\ activities' = [sorted EXCEPT ![unwrap(found)].time = complete_now(@, t)]
                       /\ now' = t
               ELSE /\ activities' = sorted
                    /\ UNCHANGED now
       ELSE UNCHANGED <<activities, now>>
    /\ UNCHANGED <<executed, job_config, start, end, pc, sorted_activities, activity_stack,
                   open_ended_activities, last_activity_end, closure, logged, result, folded>>

NextStack ==
    \/ Push
    \/ Pop

SpecStack == InitStack /\ [][NextStack]_vars

\* the ids of the activities of a list
ids(list) == {list[i].id : i \in 1..Len(list)}

\* the interval of the activity of a list with the id
interval_of(list, id) == list[CHOOSE i \in 1..Len(list) : list[i].id = id].time

\* the ids of the day's activities that are open; push numbers the activities in
\* the order they are pushed in
open_ids == {id \in ids(activities) : is_none(interval_of(activities, id).end)}

most_recent_open == CHOOSE id \in open_ids : \A other \in open_ids : other <= id

\* what the claim says of a pop: the most recently pushed open activity gets an
\* end and keeps its start, every other activity keeps its interval; with no
\* activity open every interval is kept
PopClosesMostRecent ==
    /\ ids(activities') = ids(activities)
    /\ Len(activities') = Len(activities)
    /\ \A id \in ids(activities) :
          IF open_ids # {} /\ id = most_recent_open
          THEN /\ is_some(interval_of(activities', id).end)
               /\ interval_of(activities', id).start = interval_of(activities, id).start
          ELSE interval_of(activities', id) = interval_of(activities, id)

\* C20 (Pop closes the most recent activity): over every sequence of push and pop
\* on one day with a clock that never goes back, a pop sets the end of the most
\* recently pushed activity that is still open and of no other, and changes no
\* interval when none is open
C20_PopClosesMostRecent == [][Pop => PopClosesMostRecent]_vars

\* two activities were pushed at the same time of day and one pop has closed the
\* second, the first is still open
C20_Witness ==
    /\ Len(activities) = 2
    /\ activities[1].id = 1
    /\ activities[1].time = [start |-> 0, end |-> None]
    /\ activities[2].id = 2
    /\ activities[2].time = [start |-> 0, end |-> Some(1)]


\* ----- no segment of zero duration

\* no segment of a list starts at its effective end
NoZeroDuration(segments) ==
    \A i \in 1..Len(segments) :
        segments[i].time.start # end_time_or_end_of_day(segments[i].time)

\* C21 (No zero-duration segment): no segment the call returns, with or without a
\* window and for any input, has its start equal to its effective end
C21_NoZeroDuration == pc = "done" => NoZeroDuration(unwrap(result))


\* the call has returned segments under a window although an activity of the day
\* has no duration
C21_Witness ==
    /\ pc = "done"
    /\ is_some(start)
    /\ is_some(end)
    /\ \E i \in 1..Len(activities) : activities[i].time.end = Some(activities[i].time.start)
    /\ Len(unwrap(result)) > 0


\* ----- the rules of the window pass

\* the segment as the claimed rules leave it: its start raised to a lower bound it
\* began before, its end lowered to an upper bound it ended after
clamped_by_rule(segment, window_start, window_end) ==
    [segment EXCEPT
        !.time.start = IF is_some(window_start) /\ @ < unwrap(window_start)
                       THEN unwrap(window_start) ELSE @,
        !.time.end = IF is_some(window_end)
                        /\ end_time_or_end_of_day(segment.time) > unwrap(window_end)
                     THEN window_end ELSE @]

\* the segment is dropped by the claimed rules: its effective end is before the
\* lower bound, or its start is at or after the upper bound
dropped_by_rule(segment, window_start, window_end) ==
    \/ is_some(window_start) /\ end_time_or_end_of_day(segment.time) < unwrap(window_start)
    \/ is_some(window_end) /\ segment.time.start >= unwrap(window_end)

RECURSIVE clamped_by_rules(_, _, _)
clamped_by_rules(built, window_start, window_end) ==
    IF Len(built) = 0 THEN <<>>
    ELSE (IF dropped_by_rule(Head(built), window_start, window_end) THEN <<>>
          ELSE <<clamped_by_rule(Head(built), window_start, window_end)>>)
         \o clamped_by_rules(Tail(built), window_start, window_end)

\* the window pass has run: the call has returned, a bound was given and the
\* window was not empty
WindowPassRun ==
    /\ pc = "done"
    /\ is_some(start) \/ is_some(end)
    /\ ~(is_some(start) /\ is_some(end) /\ unwrap(start) >= unwrap(end))

\* C22 (Window clamp rules) as claimed: the window pass drops exactly the segments
\* that end before the lower bound or start at or after the upper bound, keeps the
\* others in their order, each with its start raised to the lower bound if it
\* began before it and its end lowered to the upper bound if it ended after it
C22_ClampRules == WindowPassRun => unwrap(result) = clamped_by_rules(closure, start, end)


\* ----- the trailing open segment

\* the call has returned for a list in which each defined end is >= its start and
\* an activity is open-ended, and no window
OpenEndedDay ==
    /\ pc = "done"
    /\ is_none(start)
    /\ is_none(end)
    /\ WellFormed
    /\ \E i \in 1..Len(activities) : is_none(activities[i].time.end)

\* the last segment is without an end and it is the only one
TrailingOpen(segments) ==
    /\ Len(segments) > 0
    /\ \A i \in 1..Len(segments) : is_none(segments[i].time.end) <=> i = Len(segments)

\* every start and every defined end of the day's list is before the end of the day
BeforeEndOfDay ==
    \A i \in 1..Len(activities) :
        /\ activities[i].time.start < EndOfDay
        /\ end_time_or_end_of_day(activities[i].time) = EndOfDay =>
                is_none(activities[i].time.end)

\* C23 (Trailing open segment) as claimed: with no window and a well-formed list
\* with an open-ended activity, the last segment of the closure has no end and no
\* other segment is without an end
C23_AnyTimes == OpenEndedDay => TrailingOpen(unwrap(result))

\* C23 (Trailing open segment), amended: the same for a list whose starts and
\* defined ends are all before the end of the day
C23_TrailingOpen == (OpenEndedDay /\ BeforeEndOfDay) => TrailingOpen(unwrap(result))

\* the call has returned three segments for a day of a closed activity inside an
\* open-ended one, the last segment without an end
C23_Witness ==
    /\ OpenEndedDay
    /\ BeforeEndOfDay
    /\ \E i, j \in 1..Len(activities) :
          /\ activities[i].time = [start |-> 0, end |-> None]
          /\ activities[j].time = [start |-> 1, end |-> Some(2)]
    /\ Len(unwrap(result)) = 3
    /\ is_none(unwrap(result)[3].time.end)


\* ----- a classification that does not resolve

\* a reference to a class that no registry holds
Absent == Uuid("gone")

\* the day's list with the class reference of its i-th activity replaced
reclassified(i, class) == [activities EXCEPT ![i].class = class]

\* two closures agree in length and, segment by segment, in interval and name
SameIntervalsAndNames(v, w) ==
    /\ Len(v) = Len(w)
    /\ \A k \in 1..Len(v) : v[k].time = w[k].time /\ v[k].name = w[k].name

\* the closure of the day with the class of its i-th activity replaced by one the
\* registry lacks has the intervals and names of the closure returned, and is the
\* closure of the day with that class replaced by the registry's lowest
RecoveredLocally(i) ==
    /\ SameIntervalsAndNames(
            calculate_activity_closure(job_config, reclassified(i, Absent), start, end),
            unwrap(result))
    /\ calculate_activity_closure(job_config, reclassified(i, Absent), start, end)
         = calculate_activity_closure(
                job_config, reclassified(i, Uuid(lowest_priority_class(job_config).id)),
                start, end)

\* C24 (Unresolved classification is recovered locally): replacing the class
\* reference of an activity by one the registry lacks changes no segment's interval
\* or name, and the activity then counts as of the registry's lowest class
C24_RecoveredLocally ==
    pc = "done" => \A i \in 1..Len(activities) : RecoveredLocally(i)

\* the call has returned a segment of the class break for a day of two activities,
\* and with the class of one of them replaced the closure has another class there
C24_Witness ==
    /\ pc = "done"
    /\ job_config = TestConfig
    /\ Len(activities) = 2
    /\ \E k \in 1..Len(unwrap(result)) : unwrap(result)[k].class = Uuid("u2")
    /\ \E i \in 1..Len(activities) :
          calculate_activity_closure(job_config, reclassified(i, Absent), start, end)
            # unwrap(result)


\* ----- the sum of the durations, as the status command takes it

\* Interval::duration (interval.rs 14-20) with unwrap_or_default (status.rs 83):
\* an interval without an end counts as of no duration
duration_or_default(time) == IF is_some(time.end) THEN unwrap(time.end) - time.start ELSE 0

\* status.rs 81-84: the sum of the durations of the segments
RECURSIVE total_tracked(_)
total_tracked(segments) ==
    IF Len(segments) = 0 THEN 0
    ELSE duration_or_default(Head(segments).time) + total_tracked(Tail(segments))

\* the first time of day after t at which an interval of the inputs may begin or
\* end, or the bound b
next_instant(t, b) ==
    LET later == {u \in Instants : t < u /\ u < b}
    IN IF later = {} THEN b ELSE CHOOSE u \in later : \A w \in later : u <= w

\* the time from t up to b during which an activity of the list is active
RECURSIVE active_time(_, _, _)
active_time(list, t, b) ==
    IF t >= b THEN 0
    ELSE (IF \E i \in 1..Len(list) : covers(list[i], t) THEN next_instant(t, b) - t ELSE 0)
         + active_time(list, next_instant(t, b), b)

\* the call has returned for a list in which each defined end is >= its start,
\* under an upper bound alone, as the status command calls it (status.rs 69-74)
StatusCall ==
    /\ pc = "done"
    /\ is_none(start)
    /\ is_some(end)
    /\ WellFormed

\* every segment returned has an end, and the durations sum up to the time before
\* the upper bound during which an activity was active
Summable ==
    /\ \A k \in 1..Len(unwrap(result)) : is_some(unwrap(result)[k].time.end)
    /\ total_tracked(unwrap(result)) = active_time(activities, 0, unwrap(end))

\* C25 (Summable closure): under an upper bound b every segment returned has a
\* defined end, and the sum of end - start over the segments is the time up to b
\* during which at least one activity was active (here for well-formed lists)
C25_Summable == StatusCall => Summable


\* ----- the fold that fails although activities are active

\* C26 (Failed fold with contributors is unreachable on well-formed input): when
\* each defined end of the list is >= its start, no call of fold_report in the
\* sweep, the drain or the final fold finds fold_inner returning None for a heap
\* and open-ended list that are not both empty
C26_NoFailedFold == WellFormed => ~logged


\* the call has returned three segments for a well-formed day of three overlapping
\* activities, one of them open-ended, and no fold has failed
C26_Witness ==
    /\ pc = "done"
    /\ WellFormed
    /\ Len(activities) = 3
    /\ \E i \in 1..3 : is_none(activities[i].time.end)
    /\ \E i \in 1..3 : activities[i].time = [start |-> 0, end |-> Some(2)]
    /\ \E i \in 1..3 : activities[i].time = [start |-> 1, end |-> Some(2)]
    /\ Len(unwrap(result)) = 3
    /\ ~logged


\* ----- fold_inner over the orders of its contributors

\* two results of fold_inner are both None, or both segments of the same start,
\* name and projects
SameFold(made, other) ==
    IF is_none(made) \/ is_none(other)
    THEN is_none(made) /\ is_none(other)
    ELSE /\ unwrap(made).time.start = unwrap(other).time.start
         /\ unwrap(made).name = unwrap(other).name
         /\ unwrap(made).projects = unwrap(other).projects

\* C27 (Fold is order-independent on start, names and projects): for every order
\* of the contributors and the same limits fold_inner returns None as it did for
\* the order given, or a segment of the same start, name and projects
C27_FoldOrder ==
    pc = "folded" =>
        \A p \in Permutations(1..Len(activities)) :
            SameFold(unwrap(folded), fold_inner(job_config, reordered(activities, p), start, end))


\* ----- non-overlap and lists that are not well-formed

\* C28 (Non-overlap does not depend on well-formed input) as claimed: for every
\* list, an activity ending before its start included, adjacent segments of the
\* closure satisfy s[i].end <= s[i+1].start
C28_AnyInput == pc = "done" => NonOverlap(unwrap(result))

\* C28, amended: for every list in which each defined end is >= its start, under
\* every window, with classes that resolve or not and an empty registry, adjacent
\* segments of the closure satisfy s[i].end <= s[i+1].start
C28_WellFormedInput == (pc = "done" /\ WellFormed) => NonOverlap(unwrap(result))

\* under the empty registry and a window, the call has returned two segments for a
\* well-formed day of two overlapping activities
C28_Witness ==
    /\ pc = "done"
    /\ WellFormed
    /\ job_config = EmptyConfig
    /\ end = Some(2)
    /\ Len(activities) = 2
    /\ activities[1].time = [start |-> 0, end |-> None]
    /\ activities[2].time = [start |-> 1, end |-> Some(2)]
    /\ Len(unwrap(result)) = 2


\* ----- the folded class and the contributors' classes

\* every contributor's class reference resolves in the registry
AllResolve ==
    \A i \in 1..Len(activities) : is_some(resolve_class(job_config, activities[i].class))

\* C29 (Folded classification belongs to a contributor): when fold_inner returns
\* a segment and every contributor's class resolves, the segment's class is the
\* class some contributor resolves to, also in a registry with classes of equal
\* priority
C29_ClassOfContributor ==
    (pc = "folded" /\ is_some(unwrap(folded)) /\ AllResolve) =>
        \E i \in 1..Len(activities) :
            unwrap(unwrap(folded)).class
                = Uuid(unwrap(resolve_class(job_config, activities[i].class)).id)


\* ----- the commands class and project

\* JobConfig::default (job_config.rs 71-103)
DefaultConfig ==
    [classes |-> <<[id |-> "181e5c24", inner |-> [name |-> "work", priority |-> 0]],
                   [id |-> "a7c3da19", inner |-> [name |-> "break", priority |-> 5]],
                   [id |-> "e45b8156", inner |-> [name |-> "holiday", priority |-> 10]]>>,
     projects |-> <<>>]

\* the names given to class add and class remove
ClassNames == {"work", "sick"}

\* the priority given to class add
Priorities == {7}

\* the names given to project add and project remove: "p" and "q"
ProjectNames == {<<112>>, <<113>>}

\* the ids of the classes and the projects of a registry
used_ids(config) ==
    {config.classes[i].id : i \in 1..Len(config.classes)}
        \cup {config.projects[i].id : i \in 1..Len(config.projects)}

\* the ids Uuid::new_v4() makes, in the order this model hands them out
NewIds == <<"n1", "n2", "n3", "n4", "n5", "n6", "n7", "n8", "n9", "n10", "n11", "n12">>

\* Uuid::new_v4(): an id that nothing in the registry has, here the first of
\* NewIds that is so
new_v4(config) ==
    NewIds[CHOOSE n \in 1..Len(NewIds) :
                /\ NewIds[n] \notin used_ids(config)
                /\ \A m \in 1..(n - 1) : NewIds[m] \in used_ids(config)]

\* the identifiers given to remove: the ids in use or lately generated, and the
\* names
Identifiers(config, names) ==
    {Uuid(id) : id \in used_ids(config) \cup {new_v4(config)}} \cup {ByName(name) : name \in names}

\* Vec::retain of class.rs 94-97 and project.rs 87-90: what the identifier does
\* not match is kept
retain(list, identifier) ==
    SelectSeq(list, LAMBDA p : ~identifier_matches(p, identifier))

\* the default job configuration, and no command has run
InitRegistry ==
    /\ job_config = DefaultConfig
    /\ activities = <<>>
    /\ start = None
    /\ end = None
    /\ NotCalled

\* CommandClass::Add without lines 71-77: the name is not looked up
ClassAdd_unchecked ==
    /\ pc = "idle"
    /\ Len(job_config.classes) < MaxRegistry
    /\ \E name \in ClassNames, priority \in Priorities :
          /\ job_config' = [job_config EXCEPT !.classes =
                  Append(@, [id |-> new_v4(job_config),
                             inner |-> [name |-> name, priority |-> priority]])]
          /\ executed' = Some([command |-> "class add", name |-> name, result |-> "Ok"])
    /\ UNCHANGED <<now, activities, start, end, pc, sorted_activities, activity_stack,
                   open_ended_activities, last_activity_end, closure, logged, result, folded>>

\* CommandClass::Add (class.rs 66-90)
ClassAdd ==
    /\ pc = "idle"
    /\ \E name \in ClassNames, priority \in Priorities :
          IF \E i \in 1..Len(job_config.classes) : job_config.classes[i].inner.name = name
          THEN /\ executed' = Some([command |-> "class add", name |-> name, result |-> "Err(Other)"])
               /\ UNCHANGED job_config
          ELSE /\ Len(job_config.classes) < MaxRegistry
               /\ job_config' = [job_config EXCEPT !.classes =
                       Append(@, [id |-> new_v4(job_config),
                                  inner |-> [name |-> name, priority |-> priority]])]
               /\ executed' = Some([command |-> "class add", name |-> name, result |-> "Ok"])
    /\ UNCHANGED <<now, activities, start, end, pc, sorted_activities, activity_stack,
                   open_ended_activities, last_activity_end, closure, logged, result, folded>>

\* CommandClass::Remove (class.rs 91-112)
ClassRemove ==
    /\ pc = "idle"
    /\ \E class \in Identifiers(job_config, ClassNames) :
          /\ job_config' = [job_config EXCEPT !.classes = retain(@, class)]
          /\ executed' = Some([command |-> "class remove", identifier |-> class,
                                result |-> IF Len(retain(job_config.classes, class))
                                                = Len(job_config.classes)
                                           THEN "Err(NotFound)" ELSE "Ok"])
    /\ UNCHANGED <<now, activities, start, end, pc, sorted_activities, activity_stack,
                   open_ended_activities, last_activity_end, closure, logged, result, folded>>

\* CommandProject::Add (project.rs 64-83)
ProjectAdd ==
    /\ pc = "idle"
    /\ \E name \in ProjectNames :
          IF \E i \in 1..Len(job_config.projects) : job_config.projects[i].inner.name = name
          THEN /\ executed' = Some([command |-> "project add", name |-> name, result |-> "Err(Other)"])
               /\ UNCHANGED job_config
          ELSE /\ Len(job_config.projects) < MaxRegistry
               /\ job_config' = [job_config EXCEPT !.projects =
                       Append(@, [id |-> new_v4(job_config), inner |-> [name |-> name]])]
               /\ executed' = Some([command |-> "project add", name |-> name, result |-> "Ok"])
    /\ UNCHANGED <<now, activities, start, end, pc, sorted_activities, activity_stack,
                   open_ended_activities, last_activity_end, closure, logged, result, folded>>

\* CommandProject::Remove (project.rs 84-105)
ProjectRemove ==
    /\ pc = "idle"
    /\ \E project \in Identifiers(job_config, ProjectNames) :
          /\ job_config' = [job_config EXCEPT !.projects = retain(@, project)]
          /\ executed' = Some([command |-> "project remove", identifier |-> project,
                                result |-> IF Len(retain(job_config.projects, project))
                                                = Len(job_config.projects)
                                           THEN "Err(NotFound)" ELSE "Ok"])
    /\ UNCHANGED <<now, activities, start, end, pc, sorted_activities, activity_stack,
                   open_ended_activities, last_activity_end, closure, logged, result, folded>>

NextRegistry ==
    \/ ClassAdd
    \/ ClassRemove
    \/ ProjectAdd
    \/ ProjectRemove

SpecRegistry == InitRegistry /\ [][NextRegistry]_vars

\* no two entries of the list share a name
UniqueNames(list) ==
    \A i, j \in 1..Len(list) : list[i].inner.name = list[j].inner.name => i = j

\* the list the command worked on: the classes for a class command, else the projects
registry_of(config, command) ==
    IF command \in {"class add", "class remove"} THEN config.classes ELSE config.projects

\* the step is an add of a name the registry held
AddOfExisting ==
    /\ unwrap(executed').command \in {"class add", "project add"}
    /\ \E i \in 1..Len(registry_of(job_config, unwrap(executed').command)) :
          registry_of(job_config, unwrap(executed').command)[i].inner.name
            = unwrap(executed').name

\* the step is a remove whose identifier matched nothing of the registry
RemoveOfNothing ==
    /\ unwrap(executed').command \in {"class remove", "project remove"}
    /\ \A i \in 1..Len(registry_of(job_config, unwrap(executed').command)) :
          ~identifier_matches(registry_of(job_config, unwrap(executed').command)[i],
                              unwrap(executed').identifier)

\* a step that adds an existing name returns an error, one that removes what
\* matches nothing returns not-found, and both leave the registry as it was
Rejected ==
    /\ AddOfExisting =>
            (unwrap(executed').result = "Err(Other)" /\ job_config' = job_config)
    /\ RemoveOfNothing =>
            (unwrap(executed').result = "Err(NotFound)" /\ job_config' = job_config)

\* C30 (Registry names stay unique): from the default configuration, after every
\* sequence of class and project add and remove no two classes and no two projects
\* share a name; an add of an existing name returns an error and a remove that
\* matches nothing returns not-found, and both leave the registry as it was
C30_UniqueNames ==
    /\ [](UniqueNames(job_config.classes) /\ UniqueNames(job_config.projects))
    /\ [][Rejected]_vars

\* a class add of the name "work" has returned an error although the registry
\* holds "work" again after a remove, under a new id, and a project "p"
C30_Witness ==
    /\ is_some(executed)
    /\ unwrap(executed) = [command |-> "class add", name |-> "work", result |-> "Err(Other)"]
    /\ Len(job_config.classes) = 3
    /\ job_config.classes[3].inner.name = "work"
    /\ job_config.classes[3].id # "181e5c24"
    /\ Len(job_config.projects) = 1

====
